---- MODULE Spec2Model ----
(***************************************************************************)
(* MediPredict ML service: the inference engine of ml/src/api.             *)
(*                                                                         *)
(*   predictor.py   DiseasePredictor.predict, _calculate_risk_level        *)
(*   validators.py  normalize_symptom, validate_prediction_input           *)
(*                                                                         *)
(* Text is a sequence of one-character strings.  A JSON value is a tagged  *)
(* record: [t |-> "str", v |-> text], [t |-> "num", v |-> integer],        *)
(* [t |-> "nan"], [t |-> "null"], [t |-> "list", v |-> sequence of values].*)
(* A request dict is a function from field names to JSON values; a field   *)
(* that is absent is not in its DOMAIN.                                    *)
(***************************************************************************)
EXTENDS Integers, Sequences, FiniteSets, TLC

VARIABLES
    predictor,      \* self: the loaded bundle (model, scaler, label_encoders, symptom_vocabulary)
    env,            \* the numpy build: how argsort arranges equal elements
    data,           \* the request dict handed to the operation
    frame,          \* the locals of the operation when it ended (features, probabilities, ...)
    result,         \* what the operation returned or raised; NotCalled before the call
    symptom_str,    \* the text handed to a normalizer
    normalizer,     \* which normalizer is applied: "_norm" or "normalize_symptom"
    normed,         \* the outputs of the successive applications of the normalizer
    confidence,     \* the confidence handed to _calculate_risk_level
    risk_level      \* the tier it returned

vars == <<predictor, env, data, frame, result, symptom_str, normalizer, normed,
          confidence, risk_level>>

Unused == [t |-> "unused"]
NotCalled == [t |-> "not_called"]
\* risk_level before _calculate_risk_level has returned
NoTier == "none"

(***************************************************************************)
(* Bounds of the model.                                                    *)
(***************************************************************************)
MaxStrLen == 5
\* a confidence is num/den; SpecRisk draws every k/ConfUnits, 0 <= k <= ConfUnits
ConfUnits == 30000
\* SpecValidate draws requests whose vitals differ from a valid record in at most
\* this many fields
MaxOddFields == 1
\* Spec draws requests with at most this many entries in `symptoms`
MaxSymptomCount == 2
\* SpecClassifier draws every distribution over 1..MaxClasses classes whose
\* probabilities are multiples of 1/ProbUnits
MaxClasses == 6
ProbUnits == 3

(***************************************************************************)
(* Text: str.lower, str.strip, re.sub, str.endswith, slicing.              *)
(***************************************************************************)
UpperCase == <<"A","B","C","D","E","F","G","H","I","J","K","L","M",
               "N","O","P","Q","R","S","T","U","V","W","X","Y","Z">>
LowerCase == <<"a","b","c","d","e","f","g","h","i","j","k","l","m",
               "n","o","p","q","r","s","t","u","v","w","x","y","z">>
Digits == {"0","1","2","3","4","5","6","7","8","9"}
Range(f) == {f[i] : i \in DOMAIN f}

\* what str.strip() removes and \s matches
Whitespace == {" ", "\t", "\n", "\r"}
\* the class [\s_]
SeparatorChars == Whitespace \cup {"_"}
\* the class [a-z0-9 ]
KeptChars == Range(LowerCase) \cup Digits \cup {" "}

SetMin(S) == CHOOSE m \in S : \A n \in S : m <= n
SetMax(S) == CHOOSE m \in S : \A n \in S : m >= n

LowerChar(c) ==
    IF c \in Range(UpperCase)
    THEN LowerCase[CHOOSE i \in DOMAIN UpperCase : UpperCase[i] = c]
    ELSE c

\* str.lower()
Lower(str) == [i \in 1..Len(str) |-> LowerChar(str[i])]

\* str.strip(): leading and trailing whitespace removed
Strip(str) ==
    LET solid == {i \in 1..Len(str) : str[i] \notin Whitespace}
    IN  IF solid = {} THEN <<>> ELSE SubSeq(str, SetMin(solid), SetMax(solid))

RECURSIVE DropSeparators(_)
DropSeparators(str) ==
    IF str # <<>> /\ Head(str) \in SeparatorChars
    THEN DropSeparators(Tail(str))
    ELSE str

\* re.sub(r"[\s_]+", " ", s): every maximal run of whitespace/underscore becomes one space
RECURSIVE CollapseSeparators(_)
CollapseSeparators(str) ==
    IF str = <<>> THEN <<>>
    ELSE IF Head(str) \in SeparatorChars
         THEN <<" ">> \o CollapseSeparators(DropSeparators(str))
         ELSE <<Head(str)>> \o CollapseSeparators(Tail(str))

IsKept(c) == c \in KeptChars

\* re.sub(r"[^a-z0-9 ]+", "", s): every other character is deleted
DeleteOthers(str) == SelectSeq(str, IsKept)

\* str.endswith(suffix)
EndsWith(str, suffix) ==
    /\ Len(str) >= Len(suffix)
    /\ SubSeq(str, Len(str) - Len(suffix) + 1, Len(str)) = suffix

\* str[:-n]
DropLast(str, n) == SubSeq(str, 1, Len(str) - n)

(***************************************************************************)
(* The two normalizers.                                                    *)
(***************************************************************************)
\* predictor.py, predict._norm: lower, strip, collapse, delete
_norm(str) == DeleteOthers(CollapseSeparators(Strip(Lower(str))))

\* validators.py, normalize_symptom: strip, lower, collapse, delete, strip
normalize_symptom(str) == Strip(DeleteOthers(CollapseSeparators(Lower(Strip(str)))))

(***************************************************************************)
(* SpecNorm: a normalizer applied to a text, and again to its own output.  *)
(***************************************************************************)
NormChars == {"a", "B", " ", "_", "!"}

RECURSIVE TextsUpTo(_, _)
TextsUpTo(chars, n) ==
    IF n = 0 THEN {<<>>}
    ELSE LET shorter == TextsUpTo(chars, n - 1)
         IN  shorter \cup {Append(t, c) : t \in shorter, c \in chars}

InitNorm ==
    /\ symptom_str \in TextsUpTo(NormChars, MaxStrLen)
    /\ normalizer \in {"_norm", "normalize_symptom"}
    /\ normed = <<>>
    /\ predictor = Unused /\ env = Unused /\ data = Unused /\ frame = Unused /\ result = Unused
    /\ confidence = Unused /\ risk_level = Unused

LastText == IF normed = <<>> THEN symptom_str ELSE normed[Len(normed)]

ApplyNorm ==
    /\ normalizer = "_norm"
    /\ Len(normed) < 2
    /\ normed' = Append(normed, _norm(LastText))
    /\ UNCHANGED <<predictor, env, data, frame, result, symptom_str, normalizer,
                   confidence, risk_level>>

ApplyNormalizeSymptom ==
    /\ normalizer = "normalize_symptom"
    /\ Len(normed) < 2
    /\ normed' = Append(normed, normalize_symptom(LastText))
    /\ UNCHANGED <<predictor, env, data, frame, result, symptom_str, normalizer,
                   confidence, risk_level>>

NextNorm == ApplyNorm \/ ApplyNormalizeSymptom

SpecNorm == InitNorm /\ [][NextNorm]_vars

\* C5: normalization is idempotent, normalize(normalize(s)) = normalize(s), for
\* the predictor's _norm and for the validator's normalize_symptom.
C5_NormalizationIdempotent == Len(normed) = 2 => normed[2] = normed[1]

(***************************************************************************)
(* Risk tier.  A confidence is the fraction num/den (den > 0).             *)
(***************************************************************************)
Frac(n, d) == [num |-> n, den |-> d]
FracGeq(a, b) == a.num * b.den >= b.num * a.den

\* the literals 0.8 and 0.6 of _calculate_risk_level
HighThreshold == Frac(8, 10)
MediumThreshold == Frac(6, 10)

\* mutant: the "High" band opens at 0.8 instead of closing on it
Mut_risk_level_open_band(c) ==
    IF ~FracGeq(HighThreshold, c) THEN "High"
    ELSE IF FracGeq(c, MediumThreshold) THEN "Medium"
    ELSE "Low"

\* predictor.py, DiseasePredictor._calculate_risk_level
_calculate_risk_level(c) ==
    IF FracGeq(c, HighThreshold) THEN "High"
    ELSE IF FracGeq(c, MediumThreshold) THEN "Medium"
    ELSE "Low"

(***************************************************************************)
(* SpecRisk: _calculate_risk_level applied to every confidence k/ConfUnits.*)
(***************************************************************************)
InitRisk ==
    /\ confidence \in {Frac(k, ConfUnits) : k \in 0..ConfUnits}
    /\ risk_level = NoTier
    /\ predictor = Unused /\ env = Unused /\ data = Unused /\ frame = Unused /\ result = Unused
    /\ symptom_str = Unused /\ normalizer = Unused /\ normed = Unused

CalculateRiskLevel ==
    /\ risk_level = NoTier
    /\ risk_level' = _calculate_risk_level(confidence)
    /\ UNCHANGED <<predictor, env, data, frame, result, symptom_str, normalizer,
                   normed, confidence>>

NextRisk == CalculateRiskLevel

SpecRisk == InitRisk /\ [][NextRisk]_vars

\* C6: for every confidence c in [0,1] exactly one tier is returned: "High" iff
\* c >= 0.8 (4/5), "Low" iff c < 0.6 (3/5), and "Medium" iff 0.6 <= c < 0.8.
C6_RiskTierBands ==
    risk_level # NoTier =>
        /\ risk_level \in {"High", "Medium", "Low"}
        /\ (risk_level = "High") <=> (5 * confidence.num >= 4 * confidence.den)
        /\ (risk_level = "Low") <=> (5 * confidence.num < 3 * confidence.den)
        /\ (risk_level = "Medium") <=>
               /\ 5 * confidence.num >= 3 * confidence.den
               /\ 5 * confidence.num < 4 * confidence.den

\* the boundary 0.8 itself has been tiered, and is "High"
C6_Witness ==
    /\ risk_level = "High"
    /\ 5 * confidence.num = 4 * confidence.den

(***************************************************************************)
(* JSON values and request dicts.                                          *)
(***************************************************************************)
Str(text) == [t |-> "str", v |-> text]
Num(n) == [t |-> "num", v |-> n]
NaN == [t |-> "nan"]
Null == [t |-> "null"]
List(seq) == [t |-> "list", v |-> seq]

\* dict.get(key, default)
Get(d, key, default) == IF key \in DOMAIN d THEN d[key] ELSE default

\* isinstance(v, (int, float))
IsNumber(v) == v.t \in {"num", "nan"}
\* v < n and v > n on a number; every comparison with NaN is False
NumLess(v, n) == v.t = "num" /\ v.v < n
NumGreater(v, n) == v.t = "num" /\ v.v > n
\* bool(v)
Truthy(v) ==
    CASE v.t = "str" -> v.v # <<>>
      [] v.t = "num" -> v.v # 0
      [] v.t = "nan" -> TRUE
      [] v.t = "list" -> v.v # <<>>
      [] OTHER -> FALSE

\* required_fields, which is also the order of predict's vitals vector
required_fields == <<"age", "gender", "weight", "blood_pressure_systolic",
                     "blood_pressure_diastolic", "glucose", "cholesterol">>

\* the limits of the range checks of validate_prediction_input
AgeMin == 0
AgeMax == 150
WeightMin == 20
WeightMax == 300
SystolicMin == 50
SystolicMax == 250
DiastolicMin == 30
DiastolicMax == 150
GlucoseMin == 40
GlucoseMax == 400
CholesterolMin == 50
CholesterolMax == 500
MaxSymptoms == 50

Ok == [t |-> "ok"]
ValueError(msg) == [t |-> "ValueError", msg |-> msg]

\* not isinstance(x, (int, float)) or x < lo or x > hi
OutOfRange(x, lo, hi) == ~IsNumber(x) \/ NumLess(x, lo) \/ NumGreater(x, hi)

\* mutant: any non-empty list switches the vitals checks off
Mut_SymptomsOnly_any_list(d) ==
    LET symptoms == Get(d, "symptoms", List(<<>>))
    IN  symptoms.t = "list" /\ Len(symptoms.v) > 0

\* symptoms_only: a non-empty list whose first element is a str
SymptomsOnly(d) ==
    LET symptoms == Get(d, "symptoms", List(<<>>))
    IN  symptoms.t = "list" /\ Len(symptoms.v) > 0 /\ symptoms.v[1].t = "str"

\* mutant: the cap excludes a list of exactly 50 entries
Mut_ValidateSymptoms_cap_exclusive(d) ==
    LET symptoms == Get(d, "symptoms", List(<<>>))
    IN  IF ~Truthy(symptoms) THEN Ok
        ELSE IF symptoms.t # "list" THEN ValueError("Symptoms must be a list")
        ELSE IF Len(symptoms.v) >= MaxSymptoms THEN ValueError("Maximum 50 symptoms allowed")
        ELSE IF \E i \in 1..Len(symptoms.v) : symptoms.v[i].t \notin {"num", "nan", "str"}
             THEN ValueError("Each symptom must be a string or 0/1")
        ELSE Ok

\* lines 86-94: the checks of the symptoms value
ValidateSymptoms(d) ==
    LET symptoms == Get(d, "symptoms", List(<<>>))
    IN  IF ~Truthy(symptoms) THEN Ok
        ELSE IF symptoms.t # "list" THEN ValueError("Symptoms must be a list")
        ELSE IF Len(symptoms.v) > MaxSymptoms THEN ValueError("Maximum 50 symptoms allowed")
        ELSE IF \E i \in 1..Len(symptoms.v) : symptoms.v[i].t \notin {"num", "nan", "str"}
             THEN ValueError("Each symptom must be a string or 0/1")
        ELSE Ok

\* lines 36-84: the checks made when the request is not symptoms-only
ValidateVitals(d) ==
    LET missing == {i \in 1..Len(required_fields) : required_fields[i] \notin DOMAIN d}
        gender == Get(d, "gender", Null)
    IN  IF missing # {} THEN ValueError("Missing required field")
        ELSE IF OutOfRange(d["age"], AgeMin, AgeMax)
             THEN ValueError("Age must be a number between 0 and 150")
        ELSE IF ~(gender.t = "num" /\ gender.v \in {0, 1})
             THEN ValueError("Gender must be 0 (Female) or 1 (Male)")
        ELSE IF OutOfRange(d["weight"], WeightMin, WeightMax)
             THEN ValueError("Weight must be between 20 and 300 kg")
        ELSE IF OutOfRange(d["blood_pressure_systolic"], SystolicMin, SystolicMax)
             THEN ValueError("Systolic BP must be between 50 and 250")
        ELSE IF OutOfRange(d["blood_pressure_diastolic"], DiastolicMin, DiastolicMax)
             THEN ValueError("Diastolic BP must be between 30 and 150")
        ELSE IF OutOfRange(d["glucose"], GlucoseMin, GlucoseMax)
             THEN ValueError("Glucose must be between 40 and 400 mg/dL")
        ELSE IF OutOfRange(d["cholesterol"], CholesterolMin, CholesterolMax)
             THEN ValueError("Cholesterol must be between 50 and 500 mg/dL")
        ELSE Ok

\* validators.py, validate_prediction_input: Ok, or the ValueError it raises
validate_prediction_input(d) ==
    IF ~SymptomsOnly(d) /\ ValidateVitals(d) # Ok THEN ValidateVitals(d)
    ELSE ValidateSymptoms(d)

(***************************************************************************)
(* SpecValidate: validate_prediction_input applied to one request.         *)
(***************************************************************************)
W_fever == <<"f","e","v","e","r">>

\* the request of the docstring of /predict
ValidVitals ==
    [f \in Range(required_fields) |->
        CASE f = "age" -> Num(45)
          [] f = "gender" -> Num(1)
          [] f = "weight" -> Num(75)
          [] f = "blood_pressure_systolic" -> Num(130)
          [] f = "blood_pressure_diastolic" -> Num(85)
          [] f = "glucose" -> Num(110)
          [] f = "cholesterol" -> Num(200)]

FieldMin(f) ==
    CASE f = "age" -> AgeMin
      [] f = "gender" -> 0
      [] f = "weight" -> WeightMin
      [] f = "blood_pressure_systolic" -> SystolicMin
      [] f = "blood_pressure_diastolic" -> DiastolicMin
      [] f = "glucose" -> GlucoseMin
      [] f = "cholesterol" -> CholesterolMin

FieldMax(f) ==
    CASE f = "age" -> AgeMax
      [] f = "gender" -> 1
      [] f = "weight" -> WeightMax
      [] f = "blood_pressure_systolic" -> SystolicMax
      [] f = "blood_pressure_diastolic" -> DiastolicMax
      [] f = "glucose" -> GlucoseMax
      [] f = "cholesterol" -> CholesterolMax

\* the values tried for a field: both ends of its range, the numbers next to them,
\* and the JSON values that are no number in a range
OddValues(f) ==
    {Num(FieldMin(f) - 1), Num(FieldMin(f)), Num(FieldMax(f)), Num(FieldMax(f) + 1),
     NaN, Null, Str(<<"x">>)}

\* dict d without key f
Without(d, f) == [k \in DOMAIN d \ {f} |-> d[k]]
\* dict d with d[f] = v
With(d, f, v) == [k \in DOMAIN d \cup {f} |-> IF k = f THEN v ELSE d[k]]

\* the vitals records that differ from ValidVitals in at most n fields
RECURSIVE VitalsWithin(_)
VitalsWithin(n) ==
    IF n = 0 THEN {ValidVitals}
    ELSE LET nearer == VitalsWithin(n - 1)
         IN  nearer
             \cup {Without(d, f) : d \in nearer, f \in Range(required_fields)}
             \cup UNION {{With(d, f, v) : v \in OddValues(f)} :
                            d \in nearer, f \in Range(required_fields)}

NoVitals == [k \in {} |-> Null]

Repeat(v, n) == [i \in 1..n |-> v]

\* the symptoms values tried by SpecValidate
ValidateSymptomValues ==
    {List(<<>>), List(<<Str(W_fever)>>), List(<<Num(1), Str(W_fever)>>),
     List(<<Num(1), Num(0)>>), List(<<Num(7)>>), List(<<Null>>),
     List(<<Str(W_fever), Null>>), Str(W_fever), Null,
     List(Repeat(Str(W_fever), MaxSymptoms)), List(Repeat(Str(W_fever), MaxSymptoms + 1)),
     List(Repeat(Num(1), MaxSymptoms)), List(Repeat(Num(1), MaxSymptoms + 1))}

ValidateRequests ==
    LET vitals == VitalsWithin(MaxOddFields) \cup {NoVitals}
    IN  vitals \cup {With(d, "symptoms", sv) : d \in vitals, sv \in ValidateSymptomValues}

InitValidate ==
    /\ data \in ValidateRequests
    /\ result = NotCalled
    /\ predictor = Unused /\ env = Unused /\ frame = Unused
    /\ symptom_str = Unused /\ normalizer = Unused /\ normed = Unused
    /\ confidence = Unused /\ risk_level = Unused

\* /validate's call of validate_prediction_input(data)
Validate ==
    /\ result = NotCalled
    /\ result' = validate_prediction_input(data)
    /\ UNCHANGED <<predictor, env, data, frame, symptom_str, normalizer, normed,
                   confidence, risk_level>>

NextValidate == Validate

SpecValidate == InitValidate /\ [][NextValidate]_vars

\* field f is present and a number inside its range, both ends included
InRange(d, f) ==
    /\ f \in DOMAIN d
    /\ d[f].t = "num"
    /\ d[f].v >= FieldMin(f)
    /\ d[f].v <= FieldMax(f)
AllVitalsInRange(d) == \A f \in Range(required_fields) : InRange(d, f)

\* C10: for every request that is not in symptom-only mode, validate_prediction_input
\* succeeds only if all 7 vitals are present and inside their ranges (bounds
\* inclusive), otherwise it raises ValueError; a request with every field inside
\* its range and no symptoms is accepted.
C10_VitalsModeValidation ==
    (result # NotCalled /\ ~SymptomsOnly(data)) =>
        /\ result.t \in {"ok", "ValueError"}
        /\ result = Ok => AllVitalsInRange(data)
        /\ (AllVitalsInRange(data) /\ "symptoms" \notin DOMAIN data) => result = Ok

(***************************************************************************)
(* The Feature Builder of DiseasePredictor.predict (lines 56-144).         *)
(* A feature vector is a sequence of integers.  The vitals of the requests *)
(* handed to predict are numbers or absent.                                *)
(***************************************************************************)
None == [t |-> "None"]

\* self.feature_names, the order of the vitals vector
feature_names == <<"age", "gender", "weight", "blood_pressure_systolic",
                   "blood_pressure_diastolic", "glucose", "cholesterol">>

\* str(s) of a symptom entry
ToText(v) ==
    CASE v.t = "str" -> v.v
      [] v.t = "num" -> <<ToString(v.v)>>
      [] v.t = "nan" -> <<"n","a","n">>
      [] OTHER -> <<"N","o","n","e">>

\* predict._variants: the base, then the base without a trailing ing, ed, s
_variants(base) ==
    <<base>>
    \o (IF EndsWith(base, <<"i","n","g">>) THEN <<DropLast(base, 3)>> ELSE <<>>)
    \o (IF EndsWith(base, <<"e","d">>) THEN <<DropLast(base, 2)>> ELSE <<>>)
    \o (IF EndsWith(base, <<"s">>) THEN <<DropLast(base, 1)>> ELSE <<>>)

EmptyIndex == [k \in {} |-> 0]

\* mutant: a later vocabulary entry overwrites the position of an existing key
RECURSIVE Mut_AddVariants_last_wins(_, _, _)
Mut_AddVariants_last_wins(index, vs, idx) ==
    IF vs = <<>> THEN index
    ELSE Mut_AddVariants_last_wins((Head(vs) :> idx) @@ index, Tail(vs), idx)

\* lines 79-81: for v in _variants(base): if v not in vocab_index: vocab_index[v] = idx
RECURSIVE AddVariants(_, _, _)
AddVariants(index, vs, idx) ==
    IF vs = <<>> THEN index
    ELSE AddVariants(IF Head(vs) \in DOMAIN index THEN index
                     ELSE index @@ (Head(vs) :> idx),
                     Tail(vs), idx)

\* lines 76-81: the loop over enumerate(self.symptom_vocabulary), from entry i on;
\* positions count from 0 as in the code
RECURSIVE IndexFrom(_, _, _)
IndexFrom(index, vocabulary, i) ==
    IF i > Len(vocabulary) THEN index
    ELSE IndexFrom(AddVariants(index, _variants(_norm(vocabulary[i])), i - 1),
                   vocabulary, i + 1)

vocab_index(vocabulary) == IndexFrom(EmptyIndex, vocabulary, 1)

\* lines 91-95: the first variant of key that is in the index, or None
Hit(index, key) ==
    LET vs == _variants(key)
        found == {i \in 1..Len(vs) : vs[i] \in DOMAIN index}
    IN  IF found = {} THEN None ELSE Str(vs[SetMin(found)])

\* mutant: a matching entry adds 1 to its position (feature_vec[idx] += 1.0)
RECURSIVE Mut_MatchFrom_counts(_, _, _, _)
Mut_MatchFrom_counts(index, symptoms, i, st) ==
    IF i > Len(symptoms) THEN st
    ELSE LET sym == symptoms[i]
             hit == Hit(index, _norm(ToText(sym)))
         IN  IF ~Truthy(sym) THEN Mut_MatchFrom_counts(index, symptoms, i + 1, st)
             ELSE IF hit # None
                  THEN Mut_MatchFrom_counts(index, symptoms, i + 1,
                         [st EXCEPT !.feature_vec[index[hit.v] + 1] = @ + 1,
                                    !.matched = Append(@, sym)])
                  ELSE Mut_MatchFrom_counts(index, symptoms, i + 1,
                         [st EXCEPT !.unmatched = Append(@, sym)])

\* lines 87-100: the loop over the request's symptoms, from entry i on;
\* st holds feature_vec, matched and unmatched
RECURSIVE MatchFrom(_, _, _, _)
MatchFrom(index, symptoms, i, st) ==
    IF i > Len(symptoms) THEN st
    ELSE LET sym == symptoms[i]
             hit == Hit(index, _norm(ToText(sym)))
         IN  IF ~Truthy(sym) THEN MatchFrom(index, symptoms, i + 1, st)
             ELSE IF hit # None
                  THEN MatchFrom(index, symptoms, i + 1,
                         [st EXCEPT !.feature_vec[index[hit.v] + 1] = 1,
                                    !.matched = Append(@, sym)])
                  ELSE MatchFrom(index, symptoms, i + 1,
                         [st EXCEPT !.unmatched = Append(@, sym)])

\* lines 83-100
MatchSymptoms(vocabulary, symptoms) ==
    MatchFrom(vocab_index(vocabulary), symptoms, 1,
              [feature_vec |-> [i \in 1..Len(vocabulary) |-> 0],
               matched |-> <<>>, unmatched |-> <<>>])

RECURSIVE SeqSum(_)
SeqSum(vec) == IF vec = <<>> THEN 0 ELSE Head(vec) + SeqSum(Tail(vec))

\* lines 116-124 and 128-136: data.get(name, 0) for the 7 names in order
VitalsVector(d) == [i \in 1..Len(feature_names) |-> Get(d, feature_names[i], Num(0)).v]

\* mutant: no fallback, the one-hot vector is used even when nothing matched
Mut_BuildFeatures_no_fallback(self, d) ==
    LET symptoms == Get(d, "symptoms", Null)
    IN  IF self.symptom_vocabulary # <<>> /\ symptoms.t = "list"
        THEN LET st == MatchSymptoms(self.symptom_vocabulary, symptoms.v)
             IN  [features |-> st.feature_vec, used_symptoms_path |-> TRUE,
                  matched |-> st.matched, unmatched |-> st.unmatched]
        ELSE [features |-> VitalsVector(d), used_symptoms_path |-> FALSE,
              matched |-> <<>>, unmatched |-> <<>>]

\* mutant: vitals take precedence, the symptom path is used only when no age is given
Mut_BuildFeatures_vitals_first(self, d) ==
    LET symptoms == Get(d, "symptoms", Null)
        st == MatchSymptoms(self.symptom_vocabulary, symptoms.v)
    IN  IF self.symptom_vocabulary # <<>> /\ symptoms.t = "list"
           /\ "age" \notin DOMAIN d /\ SeqSum(st.feature_vec) > 0
        THEN [features |-> st.feature_vec, used_symptoms_path |-> TRUE,
              matched |-> st.matched, unmatched |-> st.unmatched]
        ELSE [features |-> VitalsVector(d), used_symptoms_path |-> FALSE,
              matched |-> <<>>, unmatched |-> <<>>]

\* lines 108-124: the one-hot vector when a symptom matched, else the vitals
PathChoice(d, st) ==
    IF SeqSum(st.feature_vec) > 0
    THEN [features |-> st.feature_vec, used_symptoms_path |-> TRUE,
          matched |-> st.matched, unmatched |-> st.unmatched]
    ELSE [features |-> VitalsVector(d), used_symptoms_path |-> FALSE,
          matched |-> st.matched, unmatched |-> st.unmatched]

\* lines 56-136: features and used_symptoms_path before scaling
BuildFeatures(self, d) ==
    IF self.symptom_vocabulary # <<>> /\ Get(d, "symptoms", Null).t = "list"
    THEN PathChoice(d, MatchSymptoms(self.symptom_vocabulary, d["symptoms"].v))
    ELSE [features |-> VitalsVector(d), used_symptoms_path |-> FALSE,
          matched |-> <<>>, unmatched |-> <<>>]

\* StandardScaler.transform: (x - mean_) / scale_ with scale_ = 1; it raises when the
\* vector has not the length it was fitted on
ScalerRaises(scaler, vec) == Len(vec) # Len(scaler.mean_)
ScalerTransform(scaler, vec) == [i \in 1..Len(vec) |-> vec[i] - scaler.mean_[i]]

\* lines 138-144: scaled when a scaler is loaded and the vitals path is used; an
\* exception of transform is swallowed
ScaleFeatures(self, built) ==
    IF self.scaler # None /\ ~built.used_symptoms_path
       /\ ~ScalerRaises(self.scaler, built.features)
    THEN ScalerTransform(self.scaler, built.features)
    ELSE built.features

\* line 151: the condition under which line 152 raises ValueError
NoUsableSignal(features) == SeqSum(features) = 0

\* lines 147-155: whether line 152 raises its ValueError; the raise stands inside
\* try: ... except Exception: pass, which swallows it, and predict goes on to line 158
SignalErrorSwallowed(used_symptoms_path, features) ==
    ~used_symptoms_path /\ NoUsableSignal(features)

(***************************************************************************)
(* The classifier (self.model) and what predict makes of its output        *)
(* (lines 157-219).  A probability is a number of ProbUnits-ths.           *)
(***************************************************************************)
\* model.predict_proba(features)[0]: the model's distribution, turned by the sum of
\* the features, so that the output depends on the vector it is handed
ModelProba(model, features) ==
    LET n == Len(model.dist)
        shift == SeqSum(features) % n
    IN  [i \in 1..n |-> model.dist[((i - 1 + shift) % n) + 1]]

\* model.predict(features)[0]: the first class of greatest probability, from 0
ModelPredict(model, features) ==
    LET p == ModelProba(model, features)
    IN  SetMin({i \in 1..Len(p) : \A j \in 1..Len(p) : p[j] <= p[i]}) - 1

\* np.max(probabilities)
SeqMax(vec) == SetMax(Range(vec))

\* np.argsort(p): the class ids (from 0) by ascending probability.  The default kind
\* is not stable: equal elements come in ascending order of index in a build that
\* sorts them stably, and in descending order in the other build modelled
Argsort(p, ties) ==
    LET before(j, i) ==
            \/ p[j] < p[i]
            \/ p[j] = p[i] /\ (IF ties = "stable" THEN j < i ELSE j > i)
        place(i) == Cardinality({j \in 1..Len(p) : before(j, i)}) + 1
    IN  [r \in 1..Len(p) |-> (CHOOSE i \in 1..Len(p) : place(i) = r) - 1]

\* a[::-1]
Reversed(a) == [i \in 1..Len(a) |-> a[Len(a) + 1 - i]]

TopKLimit == 5
\* round(x, 4) counts in 1/10000
RoundScale == 10000
\* the default confidence 0.85 of line 167
DefaultConfidence == Frac(85, 100)

\* round(x, digits) as a number of 1/scale; no x of the model lies half-way
RoundTo(x, scale) == (2 * scale * x.num + x.den) \div (2 * x.den)

\* mutant: the [::-1] is missing, the k least probable classes are taken
Mut_TopIndices_ascending(p, ties) ==
    LET k == IF Len(p) < TopKLimit THEN Len(p) ELSE TopKLimit
    IN  SubSeq(Argsort(p, ties), 1, k)

\* lines 197-198: np.argsort(probabilities)[::-1][:k]
TopIndices(p, ties) ==
    LET k == IF Len(p) < TopKLimit THEN Len(p) ELSE TopKLimit
    IN  SubSeq(Reversed(Argsort(p, ties)), 1, k)

\* str(i) of a class id
ClassIdText(i) == ToString(i)

\* lines 189-196: class_labels
ClassLabels(self, n) ==
    IF "disease" \in DOMAIN self.label_encoders
    THEN self.label_encoders["disease"].classes_
    ELSE IF "target" \in DOMAIN self.label_encoders
         THEN self.label_encoders["target"].classes_
         ELSE [i \in 1..n |-> ClassIdText(i - 1)]

\* lines 185-204: top_k
TopK(self, p, ties) ==
    LET top == TopIndices(p, ties)
        class_labels == ClassLabels(self, Len(p))
    IN  [r \in 1..Len(top) |->
            [label |-> IF top[r] < Len(class_labels) THEN class_labels[top[r] + 1]
                       ELSE ClassIdText(top[r]),
             probability |-> RoundTo(Frac(p[top[r] + 1], SeqSum(p)), RoundScale)]]

\* lines 172-183 and 209: the label of the prediction, or str(prediction) when no
\* encoder is loaded or inverse_transform raises
PredictedDisease(self, prediction) ==
    LET key == IF "disease" \in DOMAIN self.label_encoders THEN "disease"
               ELSE IF "target" \in DOMAIN self.label_encoders THEN "target"
               ELSE "none"
    IN  IF key # "none" /\ prediction < Len(self.label_encoders[key].classes_)
        THEN self.label_encoders[key].classes_[prediction + 1]
        ELSE ClassIdText(prediction)

\* lines 160-167: probabilities is None when the model has no predict_proba or the
\* call raises
HasProbabilities(model) == model.predict_proba = "yes"

\* mutant: the probability of the first class instead of the greatest
Mut_Confidence_first_class(model, features) ==
    IF HasProbabilities(model)
    THEN Frac(ModelProba(model, features)[1], SeqSum(model.dist))
    ELSE DefaultConfidence

\* line 167
Confidence(model, features) ==
    IF HasProbabilities(model)
    THEN Frac(SeqMax(ModelProba(model, features)), SeqSum(model.dist))
    ELSE DefaultConfidence

\* mutant: the entries of the request that matched are counted
Mut_MatchedSymptoms_entries(used_symptoms_path, features, matched) ==
    IF used_symptoms_path THEN Len(matched) ELSE 0

\* line 207: int(features.sum()) if used_symptoms_path else 0 (the list `matched` of
\* lines 85-98 is logged and not used here)
MatchedSymptoms(used_symptoms_path, features, matched) ==
    IF used_symptoms_path THEN SeqSum(features) ELSE 0

\* an exception that is no ValueError
Raised(type, msg) == [t |-> "Exception", type |-> type, msg |-> msg]

\* line 158: self.model.predict raises, and nothing in predict catches it.  A
\* classifier record with a field predict_raises holds the exception its predict
\* raises: sklearn raises ValueError on a vector that has not the width the
\* classifier was fitted on, and a broken estimator raises anything else
ModelPredictRaises(model) == "predict_raises" \in DOMAIN model

\* mutant: the symptoms that matched nothing are added to the loaded vocabulary
Mut_BuildStep_learns_unmatched(self, d) ==
    LET built == BuildFeatures(self, d)
    IN  [self |-> [self EXCEPT !.symptom_vocabulary =
                       @ \o [i \in 1..Len(built.unmatched) |->
                                _norm(ToText(built.unmatched[i]))]],
         data |-> d,
         built |-> built]

\* lines 56-136 as a step of one call: the bundle and the request as the step leaves
\* them (it assigns to no attribute of self and to no key of data) and its locals
BuildStep(self, d) == [self |-> self, data |-> d, built |-> BuildFeatures(self, d)]

\* lines 157-167: the classifier calls of predict and what they give; when
\* self.model.predict raises, its exception and the one call made
Classify(self, features) ==
    IF ModelPredictRaises(self.model)
    THEN [raised |-> TRUE, exc |-> self.model.predict_raises,
          model_calls |-> <<[method |-> "predict", x |-> features]>>]
    ELSE [raised |-> FALSE,
          prediction |-> ModelPredict(self.model, features),
          has_probabilities |-> HasProbabilities(self.model),
          probabilities |-> IF HasProbabilities(self.model)
                            THEN ModelProba(self.model, features) ELSE <<>>,
          confidence |-> Confidence(self.model, features),
          model_calls |-> <<[method |-> "predict", x |-> features]>>
                          \o (IF self.model.predict_proba # "absent"
                              THEN <<[method |-> "predict_proba", x |-> features]>>
                              ELSE <<>>)]

\* lines 169-219: the dict returned, from the locals of predict; the timestamp, read
\* from the clock, is left out
ComposeResult(self, ties, built, features, cls) ==
    [t |-> "returned",
     predicted_disease |-> PredictedDisease(self, cls.prediction),
     disease_code |-> cls.prediction,
     confidence |-> RoundTo(cls.confidence, RoundScale),
     confidence_percent |-> RoundTo(Frac(100 * cls.confidence.num, cls.confidence.den), 100),
     risk_level |-> _calculate_risk_level(cls.confidence),
     used_symptoms_path |-> built.used_symptoms_path,
     matched_symptoms |-> MatchedSymptoms(built.used_symptoms_path, features,
                                          built.matched),
     model_type |-> self.model.type,
     top_k |-> IF cls.has_probabilities THEN TopK(self, cls.probabilities, ties)
               ELSE <<>>]

\* the end of predict: its locals (frame) and the dict returned, or the exception
\* that leaves it (result)
PredictEnd(self, ties, built, features, cls) ==
    IF cls.raised
    THEN [frame |->
             [features |-> features,
              used_symptoms_path |-> built.used_symptoms_path,
              matched |-> built.matched,
              unmatched |-> built.unmatched,
              signal_error_swallowed |->
                  SignalErrorSwallowed(built.used_symptoms_path, features),
              model_calls |-> cls.model_calls],
          result |-> cls.exc]
    ELSE [frame |->
             [features |-> features,
              used_symptoms_path |-> built.used_symptoms_path,
              matched |-> built.matched,
              unmatched |-> built.unmatched,
              signal_error_swallowed |->
                  SignalErrorSwallowed(built.used_symptoms_path, features),
              model_calls |-> cls.model_calls,
              has_probabilities |-> cls.has_probabilities,
              probabilities |-> cls.probabilities,
              confidence |-> cls.confidence,
              top_indices |-> IF cls.has_probabilities
                              THEN TopIndices(cls.probabilities, ties) ELSE <<>>],
          result |-> ComposeResult(self, ties, built, features, cls)]

\* lines 157-219, from the scaled features on
PredictScaled(self, ties, built, features) ==
    PredictEnd(self, ties, built, features, Classify(self, features))

\* lines 138-219, from the built features on
PredictBuilt(self, ties, built) ==
    PredictScaled(self, ties, built, ScaleFeatures(self, built))

\* DiseasePredictor.predict: the locals at its end (frame) and the dict returned, or
\* the exception that leaves it (result)
predict(self, ties, d) == PredictBuilt(self, ties, BuildFeatures(self, d))

(***************************************************************************)
(* Bundles and requests.                                                   *)
(***************************************************************************)
W_chest_pain == <<"c","h","e","s","t"," ","p","a","i","n">>
W_Chest_Pain_bang == <<"C","h","e","s","t"," ","P","a","i","n","!">>
W_fevers == <<"f","e","v","e","r","s">>
W_cough == <<"c","o","u","g","h">>
W_coughing == <<"c","o","u","g","h","i","n","g">>
W_qwerty_nonexistent ==
    <<"q","w","e","r","t","y","_","n","o","n","e","x","i","s","t","e","n","t">>

\* symptom_vocabulary.json: none, the vocabulary of the spec's scenario, one whose
\* second entry is a variant of its first, one with an entry that is a bare suffix
Vocabularies ==
    {<<>>,
     <<W_chest_pain, W_fever>>,
     <<W_fevers, W_fever, W_cough>>,
     <<<<"s">>, W_coughing>>}

\* scaler.pkl: none, a StandardScaler fitted on the 7 vitals, one fitted on a
\* 2-column symptom matrix
Scaler(mean) == [t |-> "StandardScaler", mean_ |-> mean]
Scalers == {None, Scaler(<<45, 1, 75, 130, 85, 110, 200>>), Scaler(<<0, 0>>)}

\* the distributions over n classes in multiples of 1/total
RECURSIVE Dists(_, _)
Dists(n, total) ==
    IF n = 1 THEN {<<total>>}
    ELSE UNION {{<<k>> \o d : d \in Dists(n - 1, total - k)} : k \in 0..total}

\* model.pkl: a classifier with predict_proba, one without, one whose predict_proba raises
Model(dist, proba) ==
    [type |-> "RandomForestClassifier", dist |-> dist, predict_proba |-> proba]
ProbaModes == {"yes", "absent", "raises"}

\* label_encoders.pkl: {}, or one LabelEncoder under 'disease' or 'target'
DiseaseNames == <<"flu", "cold", "migraine">>
NoEncoders == [k \in {} |-> None]
LabelEncoders ==
    {NoEncoders, "disease" :> [classes_ |-> DiseaseNames],
     "target" :> [classes_ |-> DiseaseNames]}

Bundle(vocabulary, scaler, model, encoders) ==
    [symptom_vocabulary |-> vocabulary, scaler |-> scaler, model |-> model,
     label_encoders |-> encoders]

\* the entries a request's symptoms list is drawn from
SymptomPool ==
    {Str(W_Chest_Pain_bang), Str(W_coughing), Str(W_fever), Str(W_fevers),
     Str(W_qwerty_nonexistent), Str(<<"!","!">>), Str(<<>>), Num(1)}

RECURSIVE ListsUpTo(_, _)
ListsUpTo(pool, n) ==
    IF n = 0 THEN {<<>>}
    ELSE LET shorter == ListsUpTo(pool, n - 1)
         IN  shorter \cup {Append(l, e) : l \in shorter, e \in pool}

\* the vitals of the requests handed to predict: none, complete and valid, complete
\* and all zero, age alone and out of range
PredictVitals ==
    {NoVitals, ValidVitals, [f \in Range(feature_names) |-> Num(0)],
     "age" :> Num(200)}

PredictRequests ==
    PredictVitals
    \cup {With(d, "symptoms", sv) :
            d \in PredictVitals,
            sv \in {List(l) : l \in ListsUpTo(SymptomPool, MaxSymptomCount)}
                   \cup {Str(W_fever)}}

(***************************************************************************)
(* Spec: predict called once on a loaded bundle, every vocabulary and      *)
(* scaler against every request.                                           *)
(***************************************************************************)
Init ==
    /\ predictor \in {Bundle(v, sc, Model(<<ProbUnits - 1, 1, 0>>, pm), NoEncoders) :
                        v \in Vocabularies, sc \in Scalers, pm \in ProbaModes}
    /\ env = [argsort_ties |-> "stable"]
    /\ data \in PredictRequests
    /\ frame = NotCalled
    /\ result = NotCalled
    /\ symptom_str = Unused /\ normalizer = Unused /\ normed = Unused
    /\ confidence = Unused /\ risk_level = Unused

\* predictor.predict(data)
Predict ==
    /\ result = NotCalled
    /\ LET run == predict(predictor, env.argsort_ties, data)
       IN  /\ frame' = run.frame
           /\ result' = run.result
    /\ UNCHANGED <<predictor, env, data, symptom_str, normalizer, normed,
                   confidence, risk_level>>

Next == Predict

Spec == Init /\ [][Next]_vars

(***************************************************************************)
(* SpecClassifier: predict called once, every classifier output and every  *)
(* label encoder against one request of each path.                         *)
(***************************************************************************)
InitClassifier ==
    /\ predictor \in {Bundle(<<W_chest_pain, W_fever>>, None, Model(dist, pm), enc) :
                        dist \in UNION {Dists(n, ProbUnits) : n \in 1..MaxClasses},
                        pm \in ProbaModes, enc \in LabelEncoders}
    /\ env \in {[argsort_ties |-> "stable"], [argsort_ties |-> "unstable"]}
    /\ data \in {ValidVitals, "symptoms" :> List(<<Str(W_fever)>>)}
    /\ frame = NotCalled
    /\ result = NotCalled
    /\ symptom_str = Unused /\ normalizer = Unused /\ normed = Unused
    /\ confidence = Unused /\ risk_level = Unused

SpecClassifier == InitClassifier /\ [][Next]_vars

(***************************************************************************)
(* Claims about the Feature Builder, under Spec.                           *)
(***************************************************************************)
Called == result # NotCalled

\* the keys of the index: every variant of every normalized vocabulary entry
IndexKeys(vocabulary) ==
    UNION {Range(_variants(_norm(vocabulary[i]))) : i \in 1..Len(vocabulary)}

\* a request symptom that the matching loop looks up and finds
SymptomMatches(vocabulary, sym) ==
    /\ Truthy(sym)
    /\ \E v \in Range(_variants(_norm(ToText(sym)))) : v \in IndexKeys(vocabulary)

IsSymptomList(d) == "symptoms" \in DOMAIN d /\ d["symptoms"].t = "list"

SomeSymptomMatches(self, d) ==
    /\ IsSymptomList(d)
    /\ \E i \in 1..Len(d["symptoms"].v) :
          SymptomMatches(self.symptom_vocabulary, d["symptoms"].v[i])

NoVitalsGiven(d) == \A f \in Range(feature_names) : f \notin DOMAIN d

\* the vector handed to the classifier by model.predict
Handed == frame.model_calls[1].x

\* C1: a request whose symptoms match no vocabulary entry and whose 7 vitals are all
\* absent makes predict fail with ValueError without the classifier being invoked;
\* the same request with complete, in-range vitals succeeds on the vitals path.
C1_NoUsableSignal ==
    Called =>
        /\ (~SomeSymptomMatches(predictor, data) /\ NoVitalsGiven(data)) =>
               (result.t = "ValueError" /\ frame.model_calls = <<>>)
        /\ (~SomeSymptomMatches(predictor, data) /\ AllVitalsInRange(data)) =>
               (result.t = "returned" /\ ~result.used_symptoms_path)

\* C2: the vector handed to the classifier is either (a) a vector of length
\* len(vocabulary) of 0s and 1s with at least one 1, with used_symptoms_path true,
\* or (b) the 7-element vitals vector in the order age, gender, weight, systolic,
\* diastolic, glucose, cholesterol (as the scaler leaves it), with
\* used_symptoms_path false; (a) happens exactly when the vocabulary is non-empty,
\* symptoms is a list and at least one symptom matches the index.
C2_PathExclusivity ==
    Called =>
        LET onehot ==
                /\ Len(Handed) = Len(predictor.symptom_vocabulary)
                /\ \A i \in 1..Len(Handed) : Handed[i] \in {0, 1}
                /\ \E i \in 1..Len(Handed) : Handed[i] = 1
                /\ result.used_symptoms_path
            raw == [i \in 1..7 |->
                      IF required_fields[i] \in DOMAIN data
                      THEN data[required_fields[i]].v ELSE 0]
            vitals ==
                /\ Len(Handed) = 7
                /\ \/ Handed = raw
                   \/ /\ predictor.scaler # None
                      /\ Len(predictor.scaler.mean_) = 7
                      /\ \A i \in 1..7 : Handed[i] = raw[i] - predictor.scaler.mean_[i]
                /\ ~result.used_symptoms_path
            due == predictor.symptom_vocabulary # <<>> /\ SomeSymptomMatches(predictor, data)
        IN  /\ due => onehot
            /\ ~due => vitals
            /\ result.used_symptoms_path = frame.used_symptoms_path

\* the fallback has happened: symptoms were given, none matched, and the classifier
\* was handed the 7 vitals of the request
C2_Witness ==
    /\ Called
    /\ predictor.symptom_vocabulary # <<>>
    /\ IsSymptomList(data) /\ data["symptoms"].v # <<>>
    /\ ~result.used_symptoms_path
    /\ predictor.scaler = None
    /\ Handed = <<45, 1, 75, 130, 85, 110, 200>>

\* C3: two requests with the same symptoms list, which yields at least one match,
\* and any vitals (different, missing, out of range) hand the same vector to the
\* classifier and return the same result.
C3_SymptomsTakePrecedence ==
    (Called /\ predictor.symptom_vocabulary # <<>> /\ SomeSymptomMatches(predictor, data)) =>
        \A other \in PredictRequests :
            (IsSymptomList(other) /\ other["symptoms"] = data["symptoms"]) =>
                LET run == predict(predictor, env.argsort_ties, other)
                IN  /\ run.frame.model_calls = frame.model_calls
                    /\ run.result = result

\* a request with a matching symptom and an out-of-range age has been predicted
C3_Witness ==
    /\ Called
    /\ SomeSymptomMatches(predictor, data)
    /\ "age" \in DOMAIN data /\ data["age"] = Num(200)
    /\ result.used_symptoms_path

\* the request submits the exact string of vocabulary entry i
Submits(d, entry) ==
    /\ IsSymptomList(d)
    /\ \E k \in 1..Len(d["symptoms"].v) : d["symptoms"].v[k] = Str(entry)

\* C4: for any vocabulary V and any position i, submitting the exact string V[i] as
\* a request symptom sets position i of the symptom feature vector.
C4_ExactEntrySetsItsPosition ==
    Called =>
        \A i \in 1..Len(predictor.symptom_vocabulary) :
            Submits(data, predictor.symptom_vocabulary[i]) =>
                (result.used_symptoms_path /\ Handed[i] = 1)

\* the first entry that has the canonical form of entry i among its variants
FirstOwner(vocabulary, i) ==
    SetMin({j \in 1..Len(vocabulary) :
              _norm(vocabulary[i]) \in Range(_variants(_norm(vocabulary[j])))})

\* C4 as amended: submitting the exact, non-empty string V[i] sets the position of the
\* first entry V[j] that has the canonical form of V[i] as its canonical form or as
\* one of its suffix-stripped variants; that is position i when no earlier entry does.
C4_ExactEntrySetsFirstOwner ==
    Called =>
        \A i \in 1..Len(predictor.symptom_vocabulary) :
            (Submits(data, predictor.symptom_vocabulary[i])
             /\ predictor.symptom_vocabulary[i] # <<>>) =>
                /\ result.used_symptoms_path
                /\ Handed[FirstOwner(predictor.symptom_vocabulary, i)] = 1
                /\ (\A j \in 1..(i - 1) :
                      _norm(predictor.symptom_vocabulary[i])
                          \notin Range(_variants(_norm(predictor.symptom_vocabulary[j]))))
                   => Handed[i] = 1

\* "fever", the second entry, was submitted alone and set the position of "fevers"
C4_Witness ==
    /\ Called
    /\ predictor.symptom_vocabulary = <<W_fevers, W_fever, W_cough>>
    /\ IsSymptomList(data) /\ data["symptoms"].v = <<Str(W_fever)>>
    /\ Handed = <<1, 0, 0>>

(***************************************************************************)
(* Claims about the classifier's output, under SpecClassifier.             *)
(***************************************************************************)
\* the place of class c (from 0) in top_indices, 0 when it is left out
PlaceInTop(c) ==
    LET at == {r \in 1..Len(frame.top_indices) : frame.top_indices[r] = c}
    IN  IF at = {} THEN 0 ELSE SetMin(at)

\* C7: when the classifier returns a distribution over n classes, top_k has exactly
\* min(5, n) entries, their probabilities are non-increasing from first to last, and
\* every class left out has a probability <= that of every class included.
C7_TopKSizeAndOrder ==
    (Called /\ frame.has_probabilities) =>
        LET p == frame.probabilities
            n == Len(p)
            top == frame.top_indices
            tk == result.top_k
        IN  /\ Len(tk) = (IF n < 5 THEN n ELSE 5)
            /\ Len(top) = Len(tk)
            /\ \A r \in 1..Len(top) : top[r] \in 0..(n - 1)
            /\ \A r, q \in 1..Len(top) : r # q => top[r] # top[q]
            /\ \A r \in 1..(Len(tk) - 1) :
                  /\ tk[r].probability >= tk[r + 1].probability
                  /\ p[top[r] + 1] >= p[top[r + 1] + 1]
            /\ \A c \in 0..(n - 1) :
                  PlaceInTop(c) = 0 => \A r \in 1..Len(top) : p[c + 1] <= p[top[r] + 1]

\* 6 classes, 5 of them reported, the first more probable than the last
C7_Witness ==
    /\ Called /\ frame.has_probabilities
    /\ Len(frame.probabilities) = 6
    /\ Len(result.top_k) = 5
    /\ result.top_k[1].probability > result.top_k[5].probability

\* C8: when two classes have equal probability, the class with the smaller original
\* class index appears before the other in top_k, and is the one kept when only one
\* of them fits in the top 5.
C8_TopKTieBreak ==
    (Called /\ frame.has_probabilities) =>
        \A a, b \in 0..(Len(frame.probabilities) - 1) :
            (a < b /\ frame.probabilities[a + 1] = frame.probabilities[b + 1]
             /\ PlaceInTop(b) # 0) =>
                (PlaceInTop(a) # 0 /\ PlaceInTop(a) < PlaceInTop(b))

\* C9: the result's confidence is the maximum of the classifier's distribution when
\* one is available; without predict_proba, or when predict_proba raises, it is 0.85,
\* top_k is empty and the request still succeeds.
C9_ConfidenceIsMax ==
    Called =>
        /\ predictor.model.predict_proba = "yes" =>
              \E i \in 1..Len(frame.probabilities) :
                  /\ \A j \in 1..Len(frame.probabilities) :
                        frame.probabilities[j] <= frame.probabilities[i]
                  /\ result.confidence * SeqSum(frame.probabilities)
                        = RoundScale * frame.probabilities[i]
        /\ predictor.model.predict_proba \in {"absent", "raises"} =>
              /\ result.t = "returned"
              /\ result.confidence * 100 = 85 * RoundScale
              /\ result.top_k = <<>>

Abs(x) == IF x < 0 THEN -x ELSE x

\* C9 as amended: the result's confidence is the maximum of the distribution rounded
\* to 4 decimal places (the multiple of 1/10000 nearest to it); the rest as claimed.
C9_ConfidenceIsRoundedMax ==
    Called =>
        /\ predictor.model.predict_proba = "yes" =>
              \E i \in 1..Len(frame.probabilities) :
                  /\ \A j \in 1..Len(frame.probabilities) :
                        frame.probabilities[j] <= frame.probabilities[i]
                  /\ 2 * Abs(result.confidence * SeqSum(frame.probabilities)
                             - RoundScale * frame.probabilities[i])
                        <= SeqSum(frame.probabilities)
        /\ predictor.model.predict_proba \in {"absent", "raises"} =>
              /\ result.t = "returned"
              /\ result.confidence * 100 = 85 * RoundScale
              /\ result.top_k = <<>>

\* a greatest probability of 2/3 was reported as 0.6667
C9_Witness ==
    /\ Called /\ frame.has_probabilities
    /\ 3 * SeqMax(frame.probabilities) = 2 * SeqSum(frame.probabilities)
    /\ result.confidence = 6667

(***************************************************************************)
(* Claims about validate_prediction_input, under SpecValidate.             *)
(***************************************************************************)
Validated == result # NotCalled

\* `symptoms` is a non-empty list with a string as first element
StringFirstList(d) ==
    /\ IsSymptomList(d)
    /\ d["symptoms"].v # <<>>
    /\ d["symptoms"].v[1].t = "str"

\* a string, or the number 0 or 1
IsStringOrFlag(e) == e.t = "str" \/ (e.t = "num" /\ e.v \in {0, 1})

AllStringsOrFlags(d) ==
    \A i \in 1..Len(d["symptoms"].v) : IsStringOrFlag(d["symptoms"].v[i])

\* the request with its `symptoms` alone
SymptomsAlone(d) == [k \in {"symptoms"} |-> d[k]]

SomeVitalMissing(d) == \E f \in Range(required_fields) : f \notin DOMAIN d

\* C11: a request whose `symptoms` is a non-empty list with a string first is
\* validated without requiring or range-checking any vitals field: its outcome is
\* that of the request with the symptoms alone, no error is about a vitals field, and
\* with no vitals at all it passes when the list has at most 50 entries, each a
\* string or a 0/1 flag.  In every other case a missing vitals field is an error.
C11_SymptomOnlyMode ==
    Validated =>
        /\ StringFirstList(data) =>
              /\ result = validate_prediction_input(SymptomsAlone(data))
              /\ result.t = "ValueError" =>
                    result.msg \in {"Maximum 50 symptoms allowed",
                                    "Each symptom must be a string or 0/1"}
              /\ (Len(data["symptoms"].v) <= MaxSymptoms /\ AllStringsOrFlags(data)) =>
                    result = Ok
        /\ (~StringFirstList(data) /\ SomeVitalMissing(data)) =>
              result = ValueError("Missing required field")

\* a symptom-only request with a vitals field outside its range has been accepted
C11_Witness ==
    /\ Validated /\ result = Ok
    /\ StringFirstList(data)
    /\ \E f \in Range(required_fields) : f \in DOMAIN data /\ ~InRange(data, f)

\* C12: in either mode a `symptoms` list of more than 50 entries is rejected with
\* ValueError, and a list of exactly 50 entries, each a string or a 0/1 flag, is not
\* rejected for its length: the request passes when it is symptom-only or its
\* vitals are all inside their ranges.
C12_SymptomListCap ==
    (Validated /\ IsSymptomList(data)) =>
        /\ Len(data["symptoms"].v) > MaxSymptoms => result.t = "ValueError"
        /\ (Len(data["symptoms"].v) = MaxSymptoms /\ AllStringsOrFlags(data)) =>
              /\ result # ValueError("Maximum 50 symptoms allowed")
              /\ (StringFirstList(data) \/ AllVitalsInRange(data)) => result = Ok

\* a list of 51 flags with valid vitals has been rejected for its length
C12_Witness ==
    /\ Validated /\ IsSymptomList(data)
    /\ Len(data["symptoms"].v) = MaxSymptoms + 1
    /\ ~StringFirstList(data) /\ AllVitalsInRange(data)
    /\ result = ValueError("Maximum 50 symptoms allowed")

\* C13: validate_prediction_input accepts a symptoms list only if each entry is a
\* string or a numeric flag equal to 0 or 1.
C13_SymptomEntryShape ==
    (Validated /\ IsSymptomList(data) /\ result = Ok) => AllStringsOrFlags(data)

(***************************************************************************)
(* The web application (app.py).  The module's top level builds the        *)
(* predictor once (lines 29-34); the routes are served afterwards.         *)
(* env.disk maps the name of each file that can be read to what it holds.  *)
(***************************************************************************)
\* the global `predictor` before lines 29-34 have run
Unbound == [t |-> "unbound"]

ArtifactFiles == {"model.pkl", "scaler.pkl", "label_encoders.pkl", "symptom_vocabulary.json"}

\* DiseasePredictor.__init__ on the files of disk: joblib.load of a missing model.pkl
\* raises; a missing scaler, label encoder or vocabulary file is replaced by its default
DiseasePredictor(disk) ==
    IF "model.pkl" \notin DOMAIN disk
    THEN Raised("FileNotFoundError", "model.pkl")
    ELSE Bundle(IF "symptom_vocabulary.json" \in DOMAIN disk
                THEN disk["symptom_vocabulary.json"] ELSE <<>>,
                IF "scaler.pkl" \in DOMAIN disk THEN disk["scaler.pkl"] ELSE None,
                disk["model.pkl"],
                IF "label_encoders.pkl" \in DOMAIN disk
                THEN disk["label_encoders.pkl"] ELSE NoEncoders)

\* app.py lines 29-34: the predictor, or None when its construction raises
LoadPredictor(disk) ==
    LET built == DiseasePredictor(disk)
    IN  IF "t" \in DOMAIN built /\ built.t = "Exception" THEN None ELSE built

\* jsonify(body), status
Response(status, body) == [t |-> "response", status |-> status, body |-> body]

\* the return of lines 79, 109, 144, 154, 173
ModelNotLoaded == Response(503, [error |-> "Model not loaded"])

\* handle_errors: what the decorated view returns (a response) or raises
handle_errors(out) ==
    IF out.t = "ValueError"
    THEN Response(400, [error |-> out.msg, type |-> "validation_error"])
    ELSE IF out.t = "Exception"
         THEN Response(500, [error |-> "Internal server error", type |-> "server_error"])
         ELSE out

\* `not data` of the value of request.get_json(): None or an empty object
IsEmptyBody(body) == body = Null \/ DOMAIN body = {}

\* A view gives what it returns or raises (out) and the classifier calls it made.
View(out, calls) == [out |-> out, calls |-> calls]

\* health_check, lines 50-58 (the timestamp is left out)
health_check(pred) ==
    View(Response(200, [status |-> "healthy", service |-> "MediPredict ML Service",
                        model_loaded |-> pred # None]), <<>>)

\* app.py lines 89-92: the dict of predictor.predict as a 200, or its exception
PredictResponse(run) ==
    IF run.result.t = "returned"
    THEN View(Response(200, run.result), run.frame.model_calls)
    ELSE View(run.result, run.frame.model_calls)

\* mutant: the body is parsed and validated before the predictor is looked at
Mut_app_predict_validates_first(pred, ties, body) ==
    IF IsEmptyBody(body) THEN View(ValueError("Request body must be JSON"), <<>>)
    ELSE IF validate_prediction_input(body) # Ok
         THEN View(validate_prediction_input(body), <<>>)
    ELSE IF pred = None THEN View(ModelNotLoaded, <<>>)
    ELSE PredictResponse(predict(pred, ties, body))

\* predict (the view of /predict), lines 60-92
app_predict(pred, ties, body) ==
    IF pred = None THEN View(ModelNotLoaded, <<>>)
    ELSE IF IsEmptyBody(body) THEN View(ValueError("Request body must be JSON"), <<>>)
    ELSE IF validate_prediction_input(body) # Ok
         THEN View(validate_prediction_input(body), <<>>)
    ELSE PredictResponse(predict(pred, ties, body))

\* validate_input (the view of /validate), lines 184-197
validate_input(body) ==
    IF IsEmptyBody(body) THEN View(ValueError("Request body must be JSON"), <<>>)
    ELSE IF validate_prediction_input(body) # Ok
         THEN View(validate_prediction_input(body), <<>>)
    ELSE View(Response(200, [valid |-> TRUE, message |-> "Input data is valid"]), <<>>)

\* the cap of lines 119 (app.py) and 124 (validators.py)
BatchLimit == 100

\* the entries of a batch that validate_prediction_input rejects
InvalidEntries(predictions_data) ==
    {i \in 1..Len(predictions_data) : validate_prediction_input(predictions_data[i]) # Ok}

\* app.py lines 123-124: validate_prediction_input on each entry in order; the
\* ValueError of the first entry that fails leaves the loop as it is
ValidateAll(predictions_data) ==
    IF InvalidEntries(predictions_data) = {} THEN Ok
    ELSE validate_prediction_input(predictions_data[SetMin(InvalidEntries(predictions_data))])

\* the sequences seqs[lo], ..., seqs[hi] one after the other
RECURSIVE Flatten(_, _, _)
Flatten(seqs, lo, hi) ==
    IF lo > hi THEN <<>>
    ELSE IF lo = hi THEN seqs[lo]
    ELSE LET mid == (lo + hi) \div 2
         IN  Flatten(seqs, lo, mid) \o Flatten(seqs, mid + 1, hi)

\* the entries of a batch on which predictor.predict raises
RunsRaising(runs) == {j \in DOMAIN runs : runs[j].result.t # "returned"}

\* app.py lines 127-130 over the runs of predict on the entries: the loop stops at the
\* first entry that raised, the results before it were appended in order
RunsGathered(runs, raising) ==
    LET reached == IF raising = {} THEN Len(runs) ELSE SetMin(raising)
        done == IF raising = {} THEN Len(runs) ELSE reached - 1
    IN  [exc |-> IF raising = {} THEN None ELSE runs[reached].result,
         results |-> [j \in 1..done |-> runs[j].result],
         calls |-> Flatten([j \in 1..reached |-> runs[j].frame.model_calls], 1, reached)]

PredictRuns(runs) == RunsGathered(runs, RunsRaising(runs))

\* the same loop with results.insert(0, result)
Prepended(gathered) == [gathered EXCEPT !.results = Reversed(gathered.results)]

\* mutant: each result is put in front of the earlier ones
Mut_PredictAll_prepends(self, ties, predictions_data) ==
    Prepended(PredictRuns([j \in 1..Len(predictions_data) |->
                              predict(self, ties, predictions_data[j])]))

\* app.py lines 127-130: predictor.predict on each entry in order, each result
\* appended; an exception of predict leaves the loop at the entry that raised
PredictAll(self, ties, predictions_data) ==
    PredictRuns([j \in 1..Len(predictions_data) |->
                    predict(self, ties, predictions_data[j])])

\* app.py lines 132-137: the results as a 200 (the timestamp is left out), or the
\* exception of the loop
BatchResponse(done) ==
    IF done.exc # None THEN View(done.exc, done.calls)
    ELSE View(Response(200, [count |-> Len(done.results), predictions |-> done.results]),
              done.calls)

\* predict_batch (the view of /predict-batch), lines 94-137
app_predict_batch(pred, ties, body) ==
    IF pred = None THEN View(ModelNotLoaded, <<>>)
    ELSE IF IsEmptyBody(body) \/ "predictions" \notin DOMAIN body
         THEN View(ValueError("Request must contain 'predictions' array"), <<>>)
    ELSE IF body["predictions"].t # "list"
         THEN View(ValueError("'predictions' must be an array"), <<>>)
    ELSE IF Len(body["predictions"].v) > BatchLimit
         THEN View(ValueError("Maximum 100 predictions per batch"), <<>>)
    ELSE IF ValidateAll(body["predictions"].v) # Ok
         THEN View(ValidateAll(body["predictions"].v), <<>>)
    ELSE BatchResponse(PredictAll(pred, ties, body["predictions"].v))

\* validators.py line 131: f"Prediction {i}: {str(e)}"
BatchMessage(i, msg) == "Prediction " \o ToString(i) \o ": " \o msg

\* validators.py lines 127-131: the ValueError of the first entry that fails, with its
\* index from 0
ValidateEach(predictions) ==
    IF InvalidEntries(predictions) = {} THEN Ok
    ELSE LET i == SetMin(InvalidEntries(predictions))
         IN  ValueError(BatchMessage(i - 1, validate_prediction_input(predictions[i]).msg))

\* validators.py, validate_batch_input (app.py imports it and never calls it)
validate_batch_input(predictions) ==
    IF predictions.t # "list" THEN ValueError("Predictions must be a list")
    ELSE IF Len(predictions.v) = 0 THEN ValueError("Predictions list cannot be empty")
    ELSE IF Len(predictions.v) > BatchLimit
         THEN ValueError("Maximum 100 predictions per batch")
    ELSE ValidateEach(predictions.v)

\* zip(names, importances) of line 376: as many pairs as the shorter of the two
Zip(names, importances) ==
    [i \in 1..(IF Len(names) < Len(importances) THEN Len(names) ELSE Len(importances)) |->
        [feature |-> names[i], importance |-> importances[i]]]

\* DiseasePredictor.get_feature_importance
get_feature_importance(self) ==
    IF "feature_importances_" \in DOMAIN self.model
    THEN [importances |-> self.model.feature_importances_,
          features |-> feature_names, type |-> "tree_based",
          feature_importance_pairs |->
              Zip(feature_names, self.model.feature_importances_)]
    ELSE [importances |-> <<>>, features |-> <<>>, type |-> "unknown"]

\* DiseasePredictor.get_model_info
get_model_info(self) ==
    [model_type |-> self.model.type,
     feature_count |-> Len(feature_names),
     features |-> feature_names,
     disease_classes |-> ClassLabels(self, 0),
     has_probability |-> self.model.predict_proba # "absent",
     has_feature_importance |-> "feature_importances_" \in DOMAIN self.model]

\* DiseasePredictor._generate_explanation: the insights added to the text
_generate_explanation(d, prediction) ==
    [disease |-> prediction.predicted_disease,
     confidence |-> prediction.confidence,
     risk_level |-> prediction.risk_level,
     insights |->
        (IF Get(d, "glucose", Num(0)).v > 125 THEN <<"High glucose levels detected. ">>
         ELSE <<>>)
        \o (IF Get(d, "cholesterol", Num(0)).v > 200
            THEN <<"High cholesterol levels detected. ">> ELSE <<>>)
        \o (IF Get(d, "blood_pressure_systolic", Num(0)).v > 140
            THEN <<"High blood pressure detected. ">> ELSE <<>>)]

\* explain_prediction lines 267-270: the index of the explanation, canonical forms
\* only, a later entry taking the key of an earlier one
RECURSIVE ExplainIndexFrom(_, _, _)
ExplainIndexFrom(index, vocabulary, i) ==
    IF i > Len(vocabulary) THEN index
    ELSE ExplainIndexFrom((_norm(vocabulary[i]) :> (i - 1)) @@ index, vocabulary, i + 1)

\* explain_prediction lines 272-276, from entry i of the symptoms on
RECURSIVE ExplainMatchFrom(_, _, _, _)
ExplainMatchFrom(index, symptoms, i, feature_vec) ==
    IF i > Len(symptoms) THEN feature_vec
    ELSE LET key == _norm(ToText(symptoms[i]))
         IN  ExplainMatchFrom(index, symptoms, i + 1,
                 IF key \in DOMAIN index
                 THEN [feature_vec EXCEPT ![index[key] + 1] = 1]
                 ELSE feature_vec)

\* explain_prediction lines 256-293: the vector handed to SHAP and LIME
ExplainFeatureVector(self, d) ==
    LET symptoms == Get(d, "symptoms", Null)
    IN  IF self.symptom_vocabulary # <<>> /\ symptoms.t = "list"
        THEN ExplainMatchFrom(ExplainIndexFrom(EmptyIndex, self.symptom_vocabulary, 1),
                              symptoms.v, 1,
                              [i \in 1..Len(self.symptom_vocabulary) |-> 0])
        ELSE IF self.scaler # None /\ ~ScalerRaises(self.scaler, VitalsVector(d))
             THEN ScalerTransform(self.scaler, VitalsVector(d))
             ELSE VitalsVector(d)

\* explain_prediction lines 254-339, after its call of self.predict.  explainers
\* tells whether shap and lime can be imported; an exception inside them (a
\* predict_proba that raises) is swallowed, and the values they compute are left out.
\* feature_vector is the local of lines 256-293 handed to the explainers, kept with
\* the dict returned
Explained(self, explainers, d, run) ==
    IF run.result.t # "returned" THEN View(run.result, run.frame.model_calls)
    ELSE View([t |-> "returned",
               prediction |-> run.result,
               explanation |-> _generate_explanation(d, run.result),
               feature_importance |-> get_feature_importance(self),
               feature_vector |-> ExplainFeatureVector(self, d),
               shap_available |-> explainers /\ self.model.predict_proba = "yes",
               lime_available |-> explainers /\ self.model.predict_proba # "raises"],
              run.frame.model_calls)

\* DiseasePredictor.explain_prediction, lines 241-339
explain_prediction(self, ties, explainers, d) ==
    Explained(self, explainers, d, predict(self, ties, d))

\* app.py lines 181-182: the explanation as a 200, or the exception
ExplainResponse(run) ==
    IF run.out.t = "returned" THEN View(Response(200, run.out), run.calls) ELSE run

\* explain_prediction (the view of /explain), app.py lines 159-182
app_explain_prediction(pred, ties, explainers, body) ==
    IF pred = None THEN View(ModelNotLoaded, <<>>)
    ELSE IF IsEmptyBody(body) THEN View(ValueError("Request body must be JSON"), <<>>)
    ELSE IF validate_prediction_input(body) # Ok
         THEN View(validate_prediction_input(body), <<>>)
    ELSE ExplainResponse(explain_prediction(pred, ties, explainers, body))

\* feature_importance (the view of /feature-importance), app.py lines 139-147
app_feature_importance(pred) ==
    IF pred = None THEN View(ModelNotLoaded, <<>>)
    ELSE View(Response(200, get_feature_importance(pred)), <<>>)

\* model_info (the view of /model-info), app.py lines 149-157
app_model_info(pred) ==
    IF pred = None THEN View(ModelNotLoaded, <<>>)
    ELSE View(Response(200, get_model_info(pred)), <<>>)

(***************************************************************************)
(* SpecApp: the application starts (the predictor is loaded from the disk, *)
(* or is None), then serves up to MaxRequests requests one after the other; *)
(* data, result and frame hold the last request, its response, its         *)
(* classifier calls and the number of requests served so far.              *)
(***************************************************************************)
MaxBatch == 2
MaxRequests == 1

\* model.pkl: a classifier that works, a tree classifier fitted on the 2-column
\* symptom matrix with its feature_importances_ (in ProbUnits-ths), one whose predict
\* raises ValueError (a classifier fitted on a matrix of another width), one whose
\* predict raises another exception (a pickle of another library version)
OkModel == Model(<<ProbUnits - 1, 1, 0>>, "yes")
AppModels ==
    {OkModel,
     OkModel @@ ("feature_importances_" :> <<1, ProbUnits - 1>>),
     OkModel @@ ("predict_raises" :>
         ValueError("X has 7 features, but RandomForestClassifier is expecting 2 features as input.")),
     OkModel @@ ("predict_raises" :>
         Raised("AttributeError", "'DecisionTreeClassifier' object has no attribute 'monotonic_cst'"))}

FullDisk(model) ==
    [f \in ArtifactFiles |->
        CASE f = "model.pkl" -> model
          [] f = "scaler.pkl" -> Scaler(<<45, 1, 75, 130, 85, 110, 200>>)
          [] f = "label_encoders.pkl" -> ("disease" :> [classes_ |-> DiseaseNames])
          [] f = "symptom_vocabulary.json" -> <<W_chest_pain, W_fever>>]

\* the disk with the files of keep alone
DiskWith(model, keep) == [f \in keep |-> FullDisk(model)[f]]

\* the disks tried: a working classifier with every set of the other files, each
\* classifier of AppModels with and without a vocabulary, and no model.pkl with all
\* or none of the other files
Disks ==
    {DiskWith(OkModel, keep \cup {"model.pkl"}) : keep \in SUBSET ArtifactFiles}
    \cup {DiskWith(m, ArtifactFiles \ drop) :
             m \in AppModels, drop \in {{}, {"symptom_vocabulary.json"}}}
    \cup {DiskWith(OkModel, ArtifactFiles \ {"model.pkl"}), DiskWith(OkModel, {})}

\* the bodies sent to /predict, /explain and /validate (the value of get_json())
RequestBodies ==
    {Null, NoVitals, ValidVitals, With(ValidVitals, "age", Num(200)),
     Without(ValidVitals, "glucose"),
     With(ValidVitals, "symptoms", List(<<Num(7)>>)),
     "symptoms" :> List(<<Str(W_fever)>>),
     "symptoms" :> List(<<Str(W_Chest_Pain_bang), Str(W_fever)>>),
     "symptoms" :> List(<<Str(W_qwerty_nonexistent)>>),
     With(With(ValidVitals, "glucose", Num(126)), "symptoms", List(<<Str(W_fever)>>))}

\* the entries of a batch
BatchEntries ==
    {ValidVitals, With(ValidVitals, "age", Num(200)),
     "symptoms" :> List(<<Str(W_fever)>>)}

\* the bodies sent to /predict-batch
BatchBodies ==
    {Null, NoVitals, "predictions" :> Str(W_fever)}
    \cup {"predictions" :> List(l) : l \in ListsUpTo(BatchEntries, MaxBatch)}

\* a batch of exactly 100 entries and one of 101
FullBatchBodies ==
    {"predictions" :> List(Repeat(ValidVitals, n)) : n \in {BatchLimit, BatchLimit + 1}}

InitApp ==
    /\ env \in {[disk |-> d, argsort_ties |-> "stable", explainers |-> x] :
                  d \in Disks, x \in BOOLEAN}
    /\ predictor = Unbound
    /\ data = NotCalled
    /\ frame = [model_calls |-> <<>>, requests |-> 0]
    /\ result = NotCalled
    /\ symptom_str = Unused /\ normalizer = Unused /\ normed = Unused
    /\ confidence = Unused /\ risk_level = Unused

\* app.py lines 29-34, run once when the module is loaded
Load ==
    /\ predictor = Unbound
    /\ predictor' = LoadPredictor(env.disk)
    /\ UNCHANGED <<env, data, frame, result, symptom_str, normalizer, normed,
                   confidence, risk_level>>

\* a request to route with body, answered by view under handle_errors
Serve(route, body, view) ==
    /\ predictor # Unbound
    /\ frame.requests < MaxRequests
    /\ data' = [route |-> route, body |-> body]
    /\ result' = handle_errors(view.out)
    /\ frame' = [model_calls |-> view.calls, requests |-> frame.requests + 1]
    /\ UNCHANGED <<predictor, env, symptom_str, normalizer, normed, confidence,
                   risk_level>>

ServeHealth == Serve("/health", Null, health_check(predictor))

ServePredict ==
    \E body \in RequestBodies :
        Serve("/predict", body, app_predict(predictor, env.argsort_ties, body))

ServePredictBatch ==
    \E body \in BatchBodies :
        Serve("/predict-batch", body, app_predict_batch(predictor, env.argsort_ties, body))

\* the two long batches are sent as the first request only, which bounds the number
\* of times their 100 predictions are computed
ServeFullBatch ==
    /\ frame.requests = 0
    /\ \E body \in FullBatchBodies :
          Serve("/predict-batch", body,
                app_predict_batch(predictor, env.argsort_ties, body))

ServeExplain ==
    \E body \in RequestBodies :
        Serve("/explain", body,
              app_explain_prediction(predictor, env.argsort_ties, env.explainers, body))

ServeValidate ==
    \E body \in RequestBodies : Serve("/validate", body, validate_input(body))

ServeFeatureImportance ==
    Serve("/feature-importance", Null, app_feature_importance(predictor))

ServeModelInfo == Serve("/model-info", Null, app_model_info(predictor))

NextApp ==
    \/ Load
    \/ ServeHealth
    \/ ServePredict
    \/ ServePredictBatch
    \/ ServeFullBatch
    \/ ServeExplain
    \/ ServeValidate
    \/ ServeFeatureImportance
    \/ ServeModelInfo

SpecApp == InitApp /\ [][NextApp]_vars

(***************************************************************************)
(* Claims about the web application, under SpecApp.                        *)
(***************************************************************************)
Served == result # NotCalled

ServedOn(route) == Served /\ data.route = route

PredictorLoaded == predictor # Unbound /\ predictor # None

\* the body of the last request is an object whose `predictions` is a list
IsBatch(body) ==
    /\ body # Null
    /\ "predictions" \in DOMAIN body
    /\ body["predictions"].t = "list"

\* every entry of the batch passes validate_prediction_input
AllEntriesValid(entries) ==
    \A j \in 1..Len(entries) : validate_prediction_input(entries[j]) = Ok

\* C14: for every batch of 1..100 valid requests (on a loaded predictor whose
\* classifier does not raise), the /predict-batch response has count equal to the
\* number of submitted requests, and predictions[j] is the result of predicting
\* submitted request j, for every j, in submitted order.
C14_BatchOrderPreserved ==
    (/\ ServedOn("/predict-batch") /\ PredictorLoaded
     /\ ~ModelPredictRaises(predictor.model)
     /\ IsBatch(data.body)
     /\ Len(data.body["predictions"].v) \in 1..BatchLimit
     /\ AllEntriesValid(data.body["predictions"].v)) =>
        LET entries == data.body["predictions"].v
        IN  /\ result.status = 200
            /\ result.body.count = Len(entries)
            /\ Len(result.body.predictions) = Len(entries)
            /\ \A j \in 1..Len(entries) :
                  result.body.predictions[j] =
                      predict(predictor, env.argsort_ties, entries[j]).result

\* a batch of two requests with different results has been answered
C14_Witness ==
    /\ ServedOn("/predict-batch") /\ PredictorLoaded
    /\ result.status = 200
    /\ result.body.count = 2
    /\ data.body["predictions"].v[1] # data.body["predictions"].v[2]
    /\ result.body.predictions[1] # result.body.predictions[2]

\* C15: if any entry of a batch fails validation, the whole batch request fails, the
\* classifier is not invoked for any entry, and the error returned to the caller
\* indicates the index of the failing entry (the message of validate_batch_input,
\* "Prediction <index>: ...").
C15_BatchAllOrNothingWithIndex ==
    (/\ ServedOn("/predict-batch") /\ PredictorLoaded
     /\ IsBatch(data.body)
     /\ Len(data.body["predictions"].v) <= BatchLimit
     /\ ~AllEntriesValid(data.body["predictions"].v)) =>
        /\ result.status = 400
        /\ frame.model_calls = <<>>
        /\ result.body.error = validate_batch_input(data.body["predictions"]).msg

\* C16: while the predictor is not loaded, every request to /predict, /predict-batch
\* and /explain is answered 503 'Model not loaded' whatever its body, never with a
\* validation_error (400), and nothing is validated or predicted before.
C16_ArtifactUnavailableDistinct ==
    (/\ Served /\ predictor = None
     /\ data.route \in {"/predict", "/predict-batch", "/explain"}) =>
        /\ result.status = 503
        /\ result.body = [error |-> "Model not loaded"]
        /\ frame.model_calls = <<>>

\* a request that validation would reject has been answered 503 without a predictor
C16_Witness ==
    /\ ServedOn("/predict") /\ predictor = None
    /\ data.body # Null /\ data.body # NoVitals
    /\ validate_prediction_input(data.body) # Ok
    /\ result.status = 503

\* C17: if loading the artifact bundle fails at startup the process ends and never
\* serves a request: no state in which a request has been served has a missing
\* engine.
C17_LoadFailureIsFatal == Served => PredictorLoaded

\* C18: for a request that passed validation, any exception thrown by the classifier
\* call (of any type, ValueError included) is reported as the opaque internal
\* failure: 500, type server_error, message 'Internal server error'.
C18_UnexpectedFaultsOpaque ==
    (/\ Served /\ PredictorLoaded
     /\ data.route \in {"/predict", "/predict-batch", "/explain"}
     /\ ModelPredictRaises(predictor.model)
     /\ frame.model_calls # <<>>) =>
        result = Response(500, [error |-> "Internal server error", type |-> "server_error"])

(***************************************************************************)
(* Claims about the composed result, under Spec.                           *)
(***************************************************************************)
\* the entries of the request's `symptoms` list
Entries(d) == IF IsSymptomList(d) THEN d["symptoms"].v ELSE <<>>

\* the entries (by place in the list) that match the vocabulary index
MatchingEntries(self, d) ==
    {i \in 1..Len(Entries(d)) : SymptomMatches(self.symptom_vocabulary, Entries(d)[i])}

\* the vocabulary positions set by the matching entries
PositionsSet(self, d) ==
    LET index == vocab_index(self.symptom_vocabulary)
    IN  {index[Hit(index, _norm(ToText(Entries(d)[i]))).v] : i \in MatchingEntries(self, d)}

MaxThreads == 2

Threads == 1..MaxThreads

ConcurrentRequests ==
    {ValidVitals,
     "symptoms" :> List(<<Str(W_Chest_Pain_bang), Str(W_coughing)>>),
     With(ValidVitals, "symptoms", List(<<Str(W_qwerty_nonexistent)>>))}

InitConcurrent ==
    /\ predictor \in {Bundle(v, sc, OkModel, NoEncoders) :
                        v \in {<<>>, <<W_chest_pain, W_fever>>},
                        sc \in {None, Scaler(<<45, 1, 75, 130, 85, 110, 200>>)}}
    /\ data \in [Threads -> ConcurrentRequests]
    /\ env = [argsort_ties |-> "stable", bundle |-> predictor, requests |-> data]
    /\ frame = [t \in Threads |-> [pc |-> "build", overlapped |-> FALSE]]
    /\ result = [t \in Threads |-> NotCalled]
    /\ symptom_str = Unused /\ normalizer = Unused /\ normed = Unused
    /\ confidence = Unused /\ risk_level = Unused

\* another thread is inside its call while thread t takes a step
Overlaps(t) ==
    frame[t].overlapped
    \/ \E u \in Threads \ {t} : frame[u].pc \in {"scale", "classify", "compose"}

\* thread t runs lines 56-136
Build(t) ==
    /\ frame[t].pc = "build"
    /\ LET step == BuildStep(predictor, data[t])
       IN  /\ predictor' = step.self
           /\ data' = [data EXCEPT ![t] = step.data]
           /\ frame' = [frame EXCEPT ![t] =
                  [pc |-> "scale", overlapped |-> Overlaps(t), built |-> step.built]]
    /\ UNCHANGED <<env, result, symptom_str, normalizer, normed, confidence, risk_level>>

\* thread t runs lines 138-155
Scale(t) ==
    /\ frame[t].pc = "scale"
    /\ frame' = [frame EXCEPT ![t] =
           [pc |-> "classify", overlapped |-> Overlaps(t), built |-> frame[t].built,
            features |-> ScaleFeatures(predictor, frame[t].built)]]
    /\ UNCHANGED <<predictor, env, data, result, symptom_str, normalizer, normed,
                   confidence, risk_level>>

\* thread t runs lines 157-167
ClassifyCall(t) ==
    /\ frame[t].pc = "classify"
    /\ frame' = [frame EXCEPT ![t] =
           [pc |-> "compose", overlapped |-> Overlaps(t), built |-> frame[t].built,
            features |-> frame[t].features,
            cls |-> Classify(predictor, frame[t].features)]]
    /\ UNCHANGED <<predictor, env, data, result, symptom_str, normalizer, normed,
                   confidence, risk_level>>

\* thread t runs lines 169-219 and returns
Compose(t) ==
    /\ frame[t].pc = "compose"
    /\ frame' = [frame EXCEPT ![t] =
           [pc |-> "done", overlapped |-> Overlaps(t), built |-> frame[t].built,
            features |-> frame[t].features, cls |-> frame[t].cls]]
    /\ result' = [result EXCEPT ![t] =
           IF frame[t].cls.raised THEN frame[t].cls.exc
           ELSE ComposeResult(predictor, env.argsort_ties, frame[t].built,
                              frame[t].features, frame[t].cls)]
    /\ UNCHANGED <<predictor, env, data, symptom_str, normalizer, normed, confidence,
                   risk_level>>

NextConcurrent ==
    \/ \E t \in Threads : Build(t)
    \/ \E t \in Threads : Scale(t)
    \/ \E t \in Threads : ClassifyCall(t)
    \/ \E t \in Threads : Compose(t)

SpecConcurrent == InitConcurrent /\ [][NextConcurrent]_vars

Done(t) == frame[t].pc = "done"

\* C19: predict modifies neither the loaded bundle nor the request it is given, so
\* in every interleaving of concurrent calls on one shared predictor each call's
\* feature vector, path choice and result (the timestamp aside) are those of the
\* same call run alone, and calls with the same request get the same feature vector
\* and path choice.
C19_PurityUnderConcurrency ==
    /\ predictor = env.bundle
    /\ data = env.requests
    /\ \A t \in Threads :
          Done(t) =>
              LET alone == predict(env.bundle, env.argsort_ties, env.requests[t])
              IN  /\ frame[t].features = alone.frame.features
                  /\ frame[t].built.used_symptoms_path = alone.frame.used_symptoms_path
                  /\ result[t] = alone.result
    /\ \A t, u \in Threads :
          (Done(t) /\ Done(u) /\ env.requests[t] = env.requests[u]) =>
              /\ frame[t].features = frame[u].features
              /\ frame[t].built.used_symptoms_path = frame[u].built.used_symptoms_path

\* two calls with different requests, on different paths, have run interleaved
C19_Witness ==
    /\ \A t \in Threads : Done(t)
    /\ \A t \in Threads : frame[t].overlapped
    /\ \E t, u \in Threads :
          /\ data[t] # data[u]
          /\ frame[t].built.used_symptoms_path
          /\ ~frame[u].built.used_symptoms_path

(***************************************************************************)
(* Claims about the two normalizers together, under SpecNorm.              *)
(***************************************************************************)
\* C28: the two normalizers agree: for every input string, the predictor's _norm
\* and the validator's normalize_symptom return the same canonical string (the
\* normalizer applied to symptom_str gave what the other one gives for it).
C28_NormalizersAgree ==
    Len(normed) >= 1 =>
        /\ normed[1] = _norm(symptom_str)
        /\ normed[1] = normalize_symptom(symptom_str)

(***************************************************************************)
(* SpecIndex: the loop of predict that builds vocab_index (lines 76-81),   *)
(* one vocabulary entry a step; frame holds idx, the number of entries     *)
(* enumerated so far, and vocab_index.                                     *)
(***************************************************************************)
MaxVocabulary == 3

W_Fever_bang == <<"F","e","v","e","r","!">>

\* the entries a vocabulary is drawn from: words that share canonical forms or
\* suffix-stripped variants, and one that is a bare suffix
VocabularyPool == {W_fevers, W_fever, W_Fever_bang, W_cough, W_coughing, <<"s">>}

InitIndex ==
    /\ predictor \in {Bundle(v, None, Model(<<ProbUnits - 1, 1, 0>>, "yes"), NoEncoders) :
                        v \in ListsUpTo(VocabularyPool, MaxVocabulary)}
    /\ frame = [idx |-> 0, vocab_index |-> EmptyIndex]
    /\ env = Unused /\ data = Unused /\ result = Unused
    /\ symptom_str = Unused /\ normalizer = Unused /\ normed = Unused
    /\ confidence = Unused /\ risk_level = Unused

\* lines 77-81 for one (idx, symptom) of enumerate(self.symptom_vocabulary)
IndexEntry ==
    /\ frame.idx < Len(predictor.symptom_vocabulary)
    /\ frame' = [idx |-> frame.idx + 1,
                 vocab_index |->
                    AddVariants(frame.vocab_index,
                                _variants(_norm(predictor.symptom_vocabulary[frame.idx + 1])),
                                frame.idx)]
    /\ UNCHANGED <<predictor, env, data, result, symptom_str, normalizer, normed,
                   confidence, risk_level>>

NextIndex == IndexEntry

SpecIndex == InitIndex /\ [][NextIndex]_vars

\* the canonical form of entry i (from 1) and its suffix-stripped variants
KeysOf(vocabulary, i) == Range(_variants(_norm(vocabulary[i])))

\* the index over the entries enumerated so far: its keys are their variants, each
\* at the smallest position (from 0) of an entry that has it
FirstSeenWins ==
    LET V == predictor.symptom_vocabulary
        index == frame.vocab_index
    IN  /\ DOMAIN index = UNION {KeysOf(V, i) : i \in 1..frame.idx}
        /\ \A k \in DOMAIN index :
              /\ index[k] \in 0..(Len(V) - 1)
              /\ index[k] + 1 = SetMin({i \in 1..frame.idx : k \in KeysOf(V, i)})
        /\ frame.idx = Len(V) => index = vocab_index(V)

\* a step of the loop leaves every key it finds at its position
NoOverwrite ==
    \A k \in DOMAIN frame.vocab_index :
        k \in DOMAIN frame'.vocab_index /\ frame'.vocab_index[k] = frame.vocab_index[k]

\* C22: the vocabulary index is first-seen-wins: after building the index from V,
\* every key maps to the smallest position i such that the key is the canonical form
\* of V[i] or one of its suffix-stripped variants; a later entry never overwrites the
\* position of an existing key, and every key resolves to exactly one position in
\* 0..len(V)-1.  The index reached is the one predict looks symptoms up in.
C22_IndexFirstSeenWins == []FirstSeenWins /\ [][NoOverwrite]_vars

\* the index of ["fevers", "fever", "cough"] is built: "fever", the variant of the
\* first entry and the canonical form of the second, is at position 0
C22_Witness ==
    /\ predictor.symptom_vocabulary = <<W_fevers, W_fever, W_cough>>
    /\ frame.idx = 3
    /\ frame.vocab_index[W_fever] = 0
    /\ frame.vocab_index[W_cough] = 2

(***************************************************************************)
(* Claims about scaling and matching, under Spec.                          *)
(***************************************************************************)
\* the one-hot vector of the request's symptoms, as the matching loop leaves it
OneHot(self, d) == MatchSymptoms(self.symptom_vocabulary, d["symptoms"].v).feature_vec

\* C23: the scaler is applied when and only when on the vitals path: on the symptom
\* path the classifier receives the one-hot vector unscaled even if a scaler is
\* loaded; on the vitals path with a scaler loaded the classifier receives the
\* scaler's transform of the 7-element vitals vector, never the raw vitals.
C23_ScalerOnVitalsPathOnly ==
    Called =>
        /\ result.used_symptoms_path => Handed = OneHot(predictor, data)
        /\ (~result.used_symptoms_path /\ predictor.scaler # None) =>
              /\ Len(predictor.scaler.mean_) = Len(feature_names)
              /\ Handed = [i \in 1..Len(feature_names) |->
                             VitalsVector(data)[i] - predictor.scaler.mean_[i]]

\* the request's symptoms list was looked up in a vocabulary (line 57 held)
LookedUp == Called /\ predictor.symptom_vocabulary # <<>> /\ IsSymptomList(data)

\* a request symptom whose normalized form is the empty string, or whose first index
\* hit among its variants is the empty string
EmptyForm(self, sym) ==
    \/ _norm(ToText(sym)) = <<>>
    \/ Hit(vocab_index(self.symptom_vocabulary), _norm(ToText(sym))) = Str(<<>>)

\* C24: an empty normalized form means no symptom: a request symptom whose normalized
\* form is the empty string (e.g. only punctuation), or whose only index hit would be
\* the empty string, is never counted as matched and sets no position of the feature
\* vector (a request of such symptoms alone leaves the vector at zero, and predict
\* falls back to the vitals).
C24_EmptyFormIsNoSymptom ==
    LookedUp =>
        LET symptoms == data["symptoms"].v
        IN  /\ \A k \in 1..Len(symptoms) :
                  EmptyForm(predictor, symptoms[k]) =>
                      symptoms[k] \notin Range(frame.matched)
            /\ (\A k \in 1..Len(symptoms) : EmptyForm(predictor, symptoms[k])) =>
                  ~frame.used_symptoms_path

(***************************************************************************)
(* SpecMatch: the loop of predict over the request's symptoms (lines       *)
(* 83-100), one entry a step; frame holds i, the number of entries looked  *)
(* at so far, and feature_vec, matched and unmatched.                      *)
(***************************************************************************)
InitMatch ==
    /\ predictor \in {Bundle(v, None, Model(<<ProbUnits - 1, 1, 0>>, "yes"), NoEncoders) :
                        v \in Vocabularies \ {<<>>}}
    /\ data \in {"symptoms" :> List(l) : l \in ListsUpTo(SymptomPool, MaxSymptomCount)}
    /\ frame = [i |-> 0,
                st |-> [feature_vec |-> [p \in 1..Len(predictor.symptom_vocabulary) |-> 0],
                        matched |-> <<>>, unmatched |-> <<>>]]
    /\ env = Unused /\ result = Unused
    /\ symptom_str = Unused /\ normalizer = Unused /\ normed = Unused
    /\ confidence = Unused /\ risk_level = Unused

\* lines 87-100 for one s of data.get('symptoms', [])
MatchEntry ==
    /\ frame.i < Len(data["symptoms"].v)
    /\ frame' = [i |-> frame.i + 1,
                 st |-> MatchFrom(vocab_index(predictor.symptom_vocabulary),
                                  <<data["symptoms"].v[frame.i + 1]>>, 1, frame.st)]
    /\ UNCHANGED <<predictor, env, data, result, symptom_str, normalizer, normed,
                   confidence, risk_level>>

NextMatch == MatchEntry

SpecMatch == InitMatch /\ [][NextMatch]_vars

\* the loop is over
Matched == frame.i = Len(data["symptoms"].v)

\* l with the entries at places j and k exchanged
Swapped(l, j, k) == [l EXCEPT ![j] = l[k], ![k] = l[j]]

\* the symptoms that match a position the vector has set
MatchSetPosition(self, vec) ==
    {e \in SymptomPool :
        /\ PositionsSet(self, "symptoms" :> List(<<e>>)) # {}
        /\ \A p \in PositionsSet(self, "symptoms" :> List(<<e>>)) : vec[p + 1] = 1}

\* the symptoms lists that repeat an entry of l, exchange two of its entries, or add
\* to it one symptom that matches a position already set
SameSymptomsAs(self, l, vec) ==
    {Append(l, l[k]) : k \in 1..Len(l)}
    \cup {Swapped(l, j, k) : j, k \in 1..Len(l)}
    \cup {Append(l, e) : e \in MatchSetPosition(self, vec)}

\* C25: the construction of the symptom vector is idempotent and order-insensitive:
\* repeating a symptom in the request, adding a second symptom that matches an
\* already-set position, or permuting the symptoms list (any exchange of two
\* entries) leaves the resulting feature vector unchanged; every entry of the
\* vector is 0 or 1.
C25_SymptomVectorIdempotent ==
    /\ \A p \in 1..Len(frame.st.feature_vec) : frame.st.feature_vec[p] \in {0, 1}
    /\ Matched =>
          /\ frame.st = MatchSymptoms(predictor.symptom_vocabulary, data["symptoms"].v)
          /\ \A l \in SameSymptomsAs(predictor, data["symptoms"].v, frame.st.feature_vec) :
                MatchSymptoms(predictor.symptom_vocabulary, l).feature_vec
                    = frame.st.feature_vec

\* "fever" and "fevers" were submitted together, both matched the position of
\* "fever", and the vector has a single 1
C25_Witness ==
    /\ Matched
    /\ predictor.symptom_vocabulary = <<W_chest_pain, W_fever>>
    /\ data["symptoms"].v = <<Str(W_fever), Str(W_fevers)>>
    /\ Len(frame.st.matched) = 2
    /\ frame.st.feature_vec = <<0, 1>>

(***************************************************************************)
(* Claims about the validator and the predictor together, under SpecApp.   *)
(***************************************************************************)
\* /predict answered the last request with a prediction made on the vitals path
PredictedOnVitals ==
    /\ ServedOn("/predict")
    /\ result.status = 200
    /\ ~result.body.used_symptoms_path

\* C26: for every request that passed validate_prediction_input, whenever predict
\* uses the vitals path, the 7 values placed in the vitals vector are all present in
\* the request and inside the validator's ranges (no missing field replaced by 0, no
\* out-of-range or non-numeric value reaches the classifier).
C26_ValidatedVitals ==
    PredictedOnVitals =>
        /\ validate_prediction_input(data.body) = Ok
        /\ frame.model_calls # <<>>
        /\ AllVitalsInRange(data.body)

(***************************************************************************)
(* SpecTier: predict called once on a two-class classifier whose greatest  *)
(* probability is k/ConfUnits, for every k from one half on.               *)
(***************************************************************************)
InitTier ==
    /\ predictor \in {Bundle(<<W_chest_pain, W_fever>>, None,
                             Model(<<k, ConfUnits - k>>, "yes"), NoEncoders) :
                        k \in ((ConfUnits + 1) \div 2)..ConfUnits}
    /\ env = [argsort_ties |-> "stable"]
    /\ data = ValidVitals
    /\ frame = NotCalled
    /\ result = NotCalled
    /\ symptom_str = Unused /\ normalizer = Unused /\ normed = Unused
    /\ confidence = Unused /\ risk_level = Unused

SpecTier == InitTier /\ [][Next]_vars

\* C27: the reported tier agrees with the reported confidence: in every prediction
\* result, risk_level is the tier of the confidence value the result itself reports
\* (the value rounded to 4 decimals): reported confidence >= 0.8 iff risk_level is
\* High, and reported confidence < 0.6 iff risk_level is Low.
C27_TierOfReportedConfidence ==
    Called =>
        /\ (10 * result.confidence >= 8 * RoundScale) <=> (result.risk_level = "High")
        /\ (10 * result.confidence < 6 * RoundScale) <=> (result.risk_level = "Low")

\* C29: explain uses the predicted vector: for every request and bundle, the feature
\* vector explain_prediction builds for its explanation add-ons equals the feature
\* vector predict handed to the classifier for the same request (same path choice,
\* same matched positions, same fallback to vitals when nothing matches, same
\* scaling).
C29_ExplainUsesPredictedVector ==
    (ServedOn("/explain") /\ result.status = 200) =>
        result.body.feature_vector = frame.model_calls[1].x

\* /predict-batch answered a body that has a `predictions` value, on a loaded
\* predictor whose classifier does not raise
BatchServed ==
    /\ ServedOn("/predict-batch") /\ PredictorLoaded
    /\ ~ModelPredictRaises(predictor.model)
    /\ data.body # Null /\ "predictions" \in DOMAIN data.body

\* C30: the batch endpoint and the batch validator agree: /predict-batch (with the
\* model loaded) accepts a `predictions` value exactly when validate_batch_input
\* accepts it: both reject non-lists, the empty list, lists of more than 100 entries
\* and lists with an entry that fails validate_prediction_input, and both accept
\* everything else.
C30_BatchEndpointMatchesValidator ==
    BatchServed =>
        ((result.status = 200) <=> (validate_batch_input(data.body["predictions"]) = Ok))

\* /explain answered the last request with an explanation of a prediction made on
\* the symptom path
ExplainedOnSymptoms ==
    /\ ServedOn("/explain")
    /\ result.status = 200
    /\ result.body.prediction.used_symptoms_path

\* C21: feature-importance reporting is vitals-only: when the symptom path was used
\* for a request, the explanation's feature_importance is omitted or flagged as not
\* applicable (the code has no such flag: it is the empty report of type "unknown");
\* per-feature importances are never paired with the 7 vitals field names for a
\* prediction made on the symptom path.
C21_FeatureImportanceVitalsOnly ==
    ExplainedOnSymptoms =>
        LET report == result.body.feature_importance
        IN  /\ report.importances = <<>>
            /\ report.features # feature_names
            /\ "feature_importance_pairs" \in DOMAIN report =>
                  \A i \in 1..Len(report.feature_importance_pairs) :
                      report.feature_importance_pairs[i].feature \notin Range(feature_names)

====
